---- MODULE Spec2Model ----
(***************************************************************************)
(* The access-grant store and the permission gate of the resource website  *)
(* backend: the tables access, user_access and questions, the handlers    *)
(* handle_access, handle_user_access and handle_question, each running on *)
(* its own datastore connection.                                          *)
(***************************************************************************)
EXTENDS Naturals, FiniteSets, Sequences

\* ---------------------------------------------------------------- bounds
MaxUser == 2
MaxAccessId == 2
MaxPermissionId == 2
MaxQuestionId == 1
MaxLevel == 1
MaxQuery == 2
MaxText == 1
MaxCategoryId == 1

\* ------------------------------------------------------------- constants
\* Option<u64>::None of requested_user.
NoUser == 0
\* SQL NULL of a permission_level column.
NoLevel == 0

Conns == {"c1", "c2"}
UserIds == 1..MaxUser
AccessIds == 1..MaxAccessId
PermissionIds == 1..MaxPermissionId
QuestionIds == 1..MaxQuestionId
Levels == 1..MaxLevel
OptLevels == {NoLevel} \cup Levels
RequestedUsers == {NoUser} \cup UserIds
\* The capability names handle_question asks for.
AccessNames == {"GetQuestions", "CreateQuestions", "DeleteQuestions"}
Titles == {"t"}

VARIABLES
    access,             \* table access: rows [id, name, permission_level]
    next_access_id,     \* AUTO_INCREMENT of access.id
    user_access,        \* table user_access: rows [permission_id, user_id, access_id, permission_level]
    next_permission_id, \* AUTO_INCREMENT of user_access.permission_id
    questions,          \* table questions: rows [id, title]
    next_question_id,   \* AUTO_INCREMENT of questions.id
    users,              \* table users: rows [id, first_name, last_name, banner_id, email]
    next_user_id,       \* AUTO_INCREMENT of users.id
    question_categories, \* table question_categories: rows [id, title]
    next_category_id,   \* AUTO_INCREMENT of question_categories.id
    db_up,              \* whether a datastore call succeeds
    pc,                 \* per connection: where its handler stands
    req,                \* per connection: the request in progress and its locals
    resp                \* per connection: what its last handler returned

vars == <<access, next_access_id, user_access, next_permission_id,
          questions, next_question_id, users, next_user_id,
          question_categories, next_category_id, db_up, pc, req, resp>>

tables == <<access, next_access_id, user_access, next_permission_id,
            questions, next_question_id>>

\* The tables of the users and question_categories resources; the handlers of
\* the other resources never name them, and the specifications that run those
\* handlers say that they stay as they are.
other_tables == <<users, next_user_id, question_categories, next_category_id>>

\* ------------------------------------------------------------- responses
NoReq == [op |-> "none"]
NoResp == [op |-> "none", kind |-> "None", err |-> "", rows |-> {}, flag |-> FALSE]
Ok(op) == [op |-> op, kind |-> "Ok", err |-> "", rows |-> {}, flag |-> FALSE]
OkRows(op, rows) == [op |-> op, kind |-> "Ok", err |-> "", rows |-> rows, flag |-> FALSE]
OkFlag(op, flag) == [op |-> op, kind |-> "Ok", err |-> "", rows |-> {}, flag |-> flag]
Err(op, err) == [op |-> op, kind |-> "Err", err |-> err, rows |-> {}, flag |-> FALSE]

\* A handler returns: the connection is idle again and holds the response.
Return(c, r) ==
    /\ pc' = [pc EXCEPT ![c] = "idle"]
    /\ req' = [req EXCEPT ![c] = NoReq]
    /\ resp' = [resp EXCEPT ![c] = r]

\* A handler goes on to its next datastore statement.
Goto(c, label, locals) ==
    /\ pc' = [pc EXCEPT ![c] = label]
    /\ req' = [req EXCEPT ![c] = locals]
    /\ resp' = [resp EXCEPT ![c] = NoResp]

Init ==
    /\ access = {}
    /\ next_access_id = 1
    /\ user_access = {}
    /\ next_permission_id = 1
    /\ questions = {}
    /\ next_question_id = 1
    /\ users = {}
    /\ next_user_id = 1
    /\ question_categories = {}
    /\ next_category_id = 1
    /\ db_up = TRUE
    /\ pc = [c \in Conns |-> "idle"]
    /\ req = [c \in Conns |-> NoReq]
    /\ resp = [c \in Conns |-> NoResp]

\* ------------------------------------------------------- access (admin)
create_access(c, name, level) ==
    /\ pc[c] = "idle"
    /\ next_access_id <= MaxAccessId
    /\ IF ~db_up
       THEN /\ Return(c, Err("create_access", "Database"))
            /\ UNCHANGED <<tables, db_up>>
       ELSE LET row == [id |-> next_access_id, name |-> name, permission_level |-> level]
            IN /\ access' = access \cup {row}
               /\ next_access_id' = next_access_id + 1
               /\ Return(c, OkRows("create_access", {row}))
               /\ UNCHANGED <<user_access, next_permission_id, questions,
                              next_question_id, db_up>>

delete_access(c, id) ==
    /\ pc[c] = "idle"
    /\ IF ~db_up
       THEN /\ Return(c, Err("delete_access", "Database"))
            /\ UNCHANGED <<tables, db_up>>
       ELSE /\ access' = {a \in access : a.id # id}
            /\ Return(c, Ok("delete_access"))
            /\ UNCHANGED <<next_access_id, user_access, next_permission_id,
                           questions, next_question_id, db_up>>

\* -------------------------------------------------- user_access (grants)
\* found_user_accesses with its two arguments swapped.
found_user_accesses_swapped(user_id, access_id) ==
    {g \in user_access : g.user_id = access_id /\ g.access_id = user_id}

\* found_user_accesses without the filter on access_id.
found_user_accesses_any_access(user_id, access_id) ==
    {g \in user_access : g.user_id = user_id}

\* The rows of SELECT ... WHERE user_id = ? AND access_id = ?
found_user_accesses(user_id, access_id) ==
    {g \in user_access : g.user_id = user_id /\ g.access_id = access_id}

\* .execute() on the SELECT is taken to answer the number of rows it matches.
check_user_access(user_id, access_id) ==
    Cardinality(found_user_accesses(user_id, access_id)) # 0

handle_check_access(c, user_id, access_id) ==
    /\ pc[c] = "idle"
    /\ Return(c, IF ~db_up THEN Err("check_user_access", "Database")
                 ELSE OkFlag("check_user_access", check_user_access(user_id, access_id)))
    /\ UNCHANGED <<tables, db_up>>

\* create_user_access with the existence guard left out.
create_user_access_unguarded(c, new) ==
    /\ pc[c] = "idle"
    /\ next_permission_id + Cardinality({d \in Conns : pc[d] = "cua_insert"})
          <= MaxPermissionId
    /\ Goto(c, "cua_insert", [op |-> "create_user_access", new |-> new])
    /\ UNCHANGED <<tables, db_up>>

\* create_user_access, first statement: the existence read and the guard.
create_user_access(c, new) ==
    /\ pc[c] = "idle"
    /\ IF ~db_up
       THEN Return(c, Err("create_user_access", "Database"))
       ELSE IF Cardinality(found_user_accesses(new.user_id, new.access_id)) # 0
       THEN Return(c, Err("create_user_access", "Database"))
       ELSE /\ next_permission_id
                 + Cardinality({d \in Conns : pc[d] = "cua_insert"})
                 <= MaxPermissionId
            /\ Goto(c, "cua_insert", [op |-> "create_user_access", new |-> new])
    /\ UNCHANGED <<tables, db_up>>

\* create_user_access_insert as under a unique index with INSERT IGNORE.
create_user_access_insert_ignore(c) ==
    /\ pc[c] = "cua_insert"
    /\ LET new == req[c].new
           row == [permission_id |-> next_permission_id,
                   user_id |-> new.user_id,
                   access_id |-> new.access_id,
                   permission_level |-> new.permission_level]
           dup == \E g \in user_access :
                     g.user_id = new.user_id /\ g.access_id = new.access_id
       IN /\ user_access' = IF dup THEN user_access ELSE user_access \cup {row}
          /\ next_permission_id' = next_permission_id + 1
          /\ Goto(c, "cua_readback",
                  [op |-> "create_user_access", new |-> new,
                   last_insert_id |-> next_permission_id])
          /\ UNCHANGED <<access, next_access_id, questions,
                         next_question_id, db_up>>

\* create_user_access, second statement: the insert.
create_user_access_insert(c) ==
    /\ pc[c] = "cua_insert"
    /\ IF ~db_up
       THEN /\ Return(c, Err("create_user_access", "Database"))
            /\ UNCHANGED <<tables, db_up>>
       ELSE LET new == req[c].new
                row == [permission_id |-> next_permission_id,
                        user_id |-> new.user_id,
                        access_id |-> new.access_id,
                        permission_level |-> new.permission_level]
            IN /\ user_access' = user_access \cup {row}
               /\ next_permission_id' = next_permission_id + 1
               /\ Goto(c, "cua_readback",
                       [op |-> "create_user_access", new |-> new,
                        last_insert_id |-> next_permission_id])
               /\ UNCHANGED <<access, next_access_id, questions,
                              next_question_id, db_up>>

\* inserted_accesses reading the row inserted last on any connection.
inserted_accesses_latest(c) ==
    {g \in user_access : g.permission_id = next_permission_id - 1}

\* The rows of SELECT ... WHERE permission_id = LAST_INSERT_ID() on connection c.
inserted_accesses(c) ==
    {g \in user_access : g.permission_id = req[c].last_insert_id}

\* create_user_access, third statement: the read-back of the inserted row.
create_user_access_readback(c) ==
    /\ pc[c] = "cua_readback"
    /\ IF ~db_up
       THEN Return(c, Err("create_user_access", "Database"))
       ELSE IF inserted_accesses(c) # {}
       THEN \E row \in inserted_accesses(c) :
                Return(c, OkRows("create_user_access", {row}))
       ELSE Return(c, Err("create_user_access", "Database"))
    /\ UNCHANGED <<tables, db_up>>

\* The changeset (PartialUserAccess) is taken to set permission_level only.
update_user_access(c, id, level) ==
    /\ pc[c] = "idle"
    /\ IF ~db_up
       THEN /\ Return(c, Err("update_user_access", "Database"))
            /\ UNCHANGED <<tables, db_up>>
       ELSE /\ user_access' =
                 {IF g.permission_id = id
                  THEN [g EXCEPT !.permission_level = level]
                  ELSE g : g \in user_access}
            /\ Return(c, Ok("update_user_access"))
            /\ UNCHANGED <<access, next_access_id, next_permission_id,
                           questions, next_question_id, db_up>>

\* delete_user_access filtering on user_id instead of permission_id.
delete_user_access_by_user(c, id) ==
    /\ pc[c] = "idle"
    /\ user_access' = {g \in user_access : g.user_id # id}
    /\ Return(c, Ok("delete_user_access"))
    /\ UNCHANGED <<access, next_access_id, next_permission_id,
                   questions, next_question_id, db_up>>

\* delete_user_access answering NotFound when no row was deleted.
delete_user_access_strict(c, id) ==
    /\ pc[c] = "idle"
    /\ user_access' = {g \in user_access : g.permission_id # id}
    /\ Return(c, IF \E g \in user_access : g.permission_id = id
                 THEN Ok("delete_user_access")
                 ELSE Err("delete_user_access", "NotFound"))
    /\ UNCHANGED <<access, next_access_id, next_permission_id,
                   questions, next_question_id, db_up>>

delete_user_access(c, id) ==
    /\ pc[c] = "idle"
    /\ IF ~db_up
       THEN /\ Return(c, Err("delete_user_access", "Database"))
            /\ UNCHANGED <<tables, db_up>>
       ELSE /\ user_access' = {g \in user_access : g.permission_id # id}
            /\ Return(c, Ok("delete_user_access"))
            /\ UNCHANGED <<access, next_access_id, next_permission_id,
                           questions, next_question_id, db_up>>

\* ------------------------------------------------------- permission gate
\* What the grant's level has to be for an access that requires `required`.
level_meets(held, required) ==
    required = NoLevel \/ (held # NoLevel /\ held >= required)

\* The Access rows a name resolves to: none, or one of those that carry it.
resolve_access(access_name) ==
    LET named == {a \in access : a.name = access_name}
    IN IF named = {} THEN {{}} ELSE {{a} : a \in named}

\* check_to_run(requested_user, access_name, connection), the name resolved
\* to `resolved` (no row, or one row): "Ok" or the kind of the error.
check_to_run(requested_user, access_name, resolved) ==
    IF requested_user = NoUser THEN "Unauthenticated"
    ELSE IF ~db_up THEN "Database"
    ELSE IF resolved = {} THEN "UnknownCapability"
    ELSE LET a == CHOOSE a \in resolved : TRUE
         IN IF ~check_user_access(requested_user, a.id) THEN "Forbidden"
            ELSE IF \E g \in found_user_accesses(requested_user, a.id) :
                        level_meets(g.permission_level, a.permission_level)
            THEN "Ok"
            ELSE "InsufficientLevel"

\* ---------------------------------------------------------- questions
\* capability with the create arm asking for "GetQuestions" too.
capability_create_as_get(kind) ==
    CASE kind = "GetQuestions" -> "GetQuestions"
      [] kind = "GetQuestion" -> "GetQuestions"
      [] kind = "CreateQuestion" -> "GetQuestions"
      [] kind = "DeleteQuestion" -> "DeleteQuestions"

\* capability with every arm asking for "GetQuestions".
capability_all_get(kind) == "GetQuestions"

\* The capability each request kind of handle_question asks for.
capability(kind) ==
    CASE kind = "GetQuestions" -> "GetQuestions"
      [] kind = "GetQuestion" -> "GetQuestions"
      [] kind = "CreateQuestion" -> "CreateQuestions"
      [] kind = "DeleteQuestion" -> "DeleteQuestions"

QuestionRequests ==
    {[kind |-> "GetQuestions", id |-> 0, title |-> ""]}
    \cup {[kind |-> "GetQuestion", id |-> i, title |-> ""] : i \in QuestionIds}
    \cup {[kind |-> "CreateQuestion", id |-> 0, title |-> t] : t \in Titles}
    \cup {[kind |-> "DeleteQuestion", id |-> i, title |-> ""] : i \in QuestionIds}

\* gate_verdict with the two read arms calling no check.
gate_verdict_reads_open(request, requested_user, resolved) ==
    IF request.kind \in {"GetQuestions", "GetQuestion"}
    THEN "Ok"
    ELSE check_to_run(requested_user, capability(request.kind), resolved)

\* The check_to_run call of the request's arm of handle_question.
gate_verdict(request, requested_user, resolved) ==
    check_to_run(requested_user, capability(request.kind), resolved)

\* question_mark with the check's result dropped.
question_mark_ignored(c, verdict, request, requested_user) ==
    Goto(c, "hq_guarded",
         [op |-> "handle_question", request |-> request,
          requested_user |-> requested_user])

\* The `?` after check_to_run: an error returns from the handler, Ok goes on.
question_mark(c, verdict, request, requested_user) ==
    IF verdict # "Ok"
    THEN Return(c, Err("handle_question", verdict))
    ELSE Goto(c, "hq_guarded",
              [op |-> "handle_question", request |-> request,
               requested_user |-> requested_user])

\* handle_question up to the `?` after check_to_run.
handle_question(c, request, requested_user, resolved) ==
    /\ pc[c] = "idle"
    /\ resolved \in resolve_access(capability(request.kind))
    /\ (/\ request.kind = "CreateQuestion"
        /\ gate_verdict(request, requested_user, resolved) = "Ok")
       => next_question_id + Cardinality({d \in Conns :
              pc[d] = "hq_guarded" /\ req[d].request.kind = "CreateQuestion"})
          <= MaxQuestionId
    /\ question_mark(c, gate_verdict(request, requested_user, resolved),
                     request, requested_user)
    /\ UNCHANGED <<tables, db_up>>

\* Question::read_all
read_all == questions

\* Question::read_single
read_single(id) == {q \in questions : q.id = id}

\* handle_question_guarded looking the grant up again before the write.
handle_question_guarded_rechecked(c) ==
    /\ pc[c] = "hq_guarded"
    /\ LET request == req[c].request
           granted == \E a \in access :
                         /\ a.name = capability(request.kind)
                         /\ check_user_access(req[c].requested_user, a.id)
       IN IF ~granted
          THEN /\ Return(c, Err("handle_question", "Forbidden"))
               /\ UNCHANGED <<tables, db_up>>
          ELSE /\ questions' =
                    IF request.kind = "CreateQuestion"
                    THEN questions \cup {[id |-> next_question_id,
                                          title |-> request.title]}
                    ELSE IF request.kind = "DeleteQuestion"
                    THEN {q \in questions : q.id # request.id}
                    ELSE questions
               /\ next_question_id' =
                    IF request.kind = "CreateQuestion"
                    THEN next_question_id + 1 ELSE next_question_id
               /\ Return(c, Ok("handle_question"))
               /\ UNCHANGED <<access, next_access_id, user_access,
                              next_permission_id, db_up>>

\* handle_question after the check: the guarded read or write. create_question
\* reads its row back by LAST_INSERT_ID(), which is the connection's own, so
\* the insert and the read-back are taken as one step.
handle_question_guarded(c) ==
    /\ pc[c] = "hq_guarded"
    /\ LET request == req[c].request
       IN IF ~db_up
          THEN /\ Return(c, Err("handle_question", "Database"))
               /\ UNCHANGED <<tables, db_up>>
          ELSE CASE request.kind = "GetQuestions" ->
                    /\ Return(c, OkRows("handle_question", read_all))
                    /\ UNCHANGED <<tables, db_up>>
                 [] request.kind = "GetQuestion" ->
                    /\ Return(c, IF read_single(request.id) # {}
                                 THEN OkRows("handle_question", read_single(request.id))
                                 ELSE Err("handle_question", "NotFound"))
                    /\ UNCHANGED <<tables, db_up>>
                 [] request.kind = "CreateQuestion" ->
                    LET row == [id |-> next_question_id, title |-> request.title]
                    IN /\ questions' = questions \cup {row}
                       /\ next_question_id' = next_question_id + 1
                       /\ Return(c, OkRows("handle_question", {row}))
                       /\ UNCHANGED <<access, next_access_id, user_access,
                                      next_permission_id, db_up>>
                 [] request.kind = "DeleteQuestion" ->
                    /\ questions' = {q \in questions : q.id # request.id}
                    /\ Return(c, Ok("handle_question"))
                    /\ UNCHANGED <<access, next_access_id, user_access,
                                   next_permission_id, next_question_id, db_up>>

\* ---------------------------------------------------------- search terms
\* The characters of a text: a letter, a digit, and the one-character wildcard
\* of LIKE.
Chars == {"a", "1", "_"}
Digits == {"1"}
\* A text is a sequence of characters.
Texts == UNION {[1..n -> Chars] : n \in 0..MaxText}

\* Search<T> and NullableSearch<T>.
NoSearch == [kind |-> "NoSearch"]
Exact(v) == [kind |-> "Exact", value |-> v]
Partial(v) == [kind |-> "Partial", value |-> v]
Some == [kind |-> "Some"]
None == [kind |-> "None"]
\* from_query failing: Err(Error::new(ErrorKind::Url)).
UrlError == [kind |-> "Url"]

\* str::parse::<u32>: a non-empty run of digits, read in base ten.
is_u32(s) == s # <<>> /\ \A i \in 1..Len(s) : s[i] \in Digits

\* The value of a digit.
digit(ch) == IF ch = "1" THEN 1 ELSE 0

RECURSIVE parse_u32(_)
parse_u32(s) ==
    IF s = <<>> THEN 0
    ELSE parse_u32(SubSeq(s, 1, Len(s) - 1)) * 10 + digit(s[Len(s)])

\* A raw query value: a prefix tag followed by its payload.
RawTexts ==
    {[prefix |-> p, payload |-> t] : p \in {"exact:", "partial:"}, t \in Texts}
    \cup {[prefix |-> p, payload |-> <<>>] : p \in {"null", "notnull", "any:"}}

\* Search::<String>::from_query
from_query_text(raw) ==
    IF raw.prefix = "exact:" /\ raw.payload # <<>> THEN Exact(raw.payload)
    ELSE IF raw.prefix = "partial:" /\ raw.payload # <<>> THEN Partial(raw.payload)
    ELSE UrlError

\* Search::<u32>::from_query
from_query_u32(raw) ==
    IF raw.prefix = "exact:" /\ is_u32(raw.payload)
    THEN Exact(parse_u32(raw.payload))
    ELSE IF raw.prefix = "partial:" /\ is_u32(raw.payload)
    THEN Partial(parse_u32(raw.payload))
    ELSE UrlError

\* NullableSearch::<String>::from_query
nullable_from_query(raw) ==
    IF raw.prefix = "null" THEN None
    ELSE IF raw.prefix = "notnull" THEN Some
    ELSE from_query_text(raw)

\* format!("%{}%", s)
format(s) == <<"%">> \o s \o <<"%">>

\* text LIKE pattern: % stands for any run of characters, _ for any one.
RECURSIVE like(_, _)
like(text, pattern) ==
    IF pattern = <<>> THEN text = <<>>
    ELSE IF Head(pattern) = "%"
    THEN \/ like(text, Tail(pattern))
         \/ (text # <<>> /\ like(Tail(text), pattern))
    ELSE /\ text # <<>>
         /\ (Head(pattern) = "_" \/ Head(pattern) = Head(text))
         /\ like(Tail(text), Tail(pattern))

\* ------------------------------------------------------------------ users
\* SQL NULL of users.email (Option<String>::None): an email is no text or one.
NoEmail == {}
FirstNames == {<<"a">>, <<"a", "1">>}
LastNames == {<<"a">>, <<"1">>}
BannerIds == {1, 11}
Emails == {NoEmail, {<<"a">>}}
NewUsers ==
    [first_name : FirstNames, last_name : LastNames,
     banner_id : BannerIds, email : Emails]

\* PartialUser: each field no change ({}) or the new value.
PartialUsers ==
    {[first_name |-> {f}, last_name |-> {}, banner_id |-> {}, email |-> {}] :
        f \in FirstNames}
    \cup {[first_name |-> {}, last_name |-> {}, banner_id |-> {b}, email |-> {}] :
        b \in BannerIds}
    \cup {[first_name |-> {}, last_name |-> {}, banner_id |-> {}, email |-> {e}] :
        e \in Emails}

\* The names a query entry can carry: the four fields and one that is none.
FieldNames == {"first_name", "last_name", "banner_id", "email", "nickname"}
QueryEntries == [field : FieldNames, query : RawTexts]
Queries == UNION {[1..n -> QueryEntries] : n \in 0..MaxQuery}

\* path.pop().map(|p| p.parse()): no segment, one that is no id, or an id.
NoPath == [kind |-> "None"]
BadPath == [kind |-> "Err"]
IdPath(id) == [kind |-> "Ok", id |-> id]
NoBody == [kind |-> "none"]
Methods == {"GET", "POST", "DELETE", "PUT"}

\* The four search variables as declared before the loop.
no_search ==
    [first_name |-> NoSearch, last_name |-> NoSearch,
     banner_id |-> NoSearch, email |-> NoSearch]

\* search_variable with the last_name arm assigning first_name_search.
search_variable_last_as_first(field) ==
    IF field = "last_name" THEN "first_name" ELSE field

\* The variable the arm of a field name assigns.
search_variable(field) ==
    CASE field = "first_name" -> "first_name"
      [] field = "last_name" -> "last_name"
      [] field = "banner_id" -> "banner_id"
      [] field = "email" -> "email"

\* match_field with the catch-all arm skipping the entry.
match_field_skip_unknown(acc, field, query) ==
    IF field \notin {"first_name", "last_name", "banner_id", "email"}
    THEN acc
    ELSE LET term ==
                 CASE field = "first_name" -> from_query_text(query)
                   [] field = "last_name" -> from_query_text(query)
                   [] field = "banner_id" -> from_query_u32(query)
                   [] field = "email" -> nullable_from_query(query)
         IN IF term.kind = "Url"
            THEN [err |-> TRUE, user |-> acc.user]
            ELSE [err |-> FALSE,
                  user |-> [acc.user EXCEPT ![search_variable(field)] = term]]

\* One turn of the loop over the query: the match on the field name, the `?`
\* after from_query, the catch-all arm.
match_field(acc, field, query) ==
    IF field \notin {"first_name", "last_name", "banner_id", "email"}
    THEN [err |-> TRUE, user |-> acc.user]
    ELSE LET term ==
                 CASE field = "first_name" -> from_query_text(query)
                   [] field = "last_name" -> from_query_text(query)
                   [] field = "banner_id" -> from_query_u32(query)
                   [] field = "email" -> nullable_from_query(query)
         IN IF term.kind = "Url"
            THEN [err |-> TRUE, user |-> acc.user]
            ELSE [err |-> FALSE,
                  user |-> [acc.user EXCEPT ![search_variable(field)] = term]]

\* for (field, query) in query { ... }: the loop, left at the first error.
RECURSIVE for_query(_, _)
for_query(query, acc) ==
    IF query = <<>> THEN acc
    ELSE LET next == match_field(acc, Head(query).field, Head(query).query)
         IN IF next.err THEN next ELSE for_query(Tail(query), next)

\* The filter search_users adds for first_name.
first_name_filter(rows, term) ==
    CASE term.kind = "Partial" ->
             {u \in rows : like(u.first_name, format(term.value))}
      [] term.kind = "Exact" -> {u \in rows : u.first_name = term.value}
      [] term.kind = "NoSearch" -> rows

\* The filter search_users adds for last_name.
last_name_filter(rows, term) ==
    CASE term.kind = "Partial" ->
             {u \in rows : like(u.last_name, format(term.value))}
      [] term.kind = "Exact" -> {u \in rows : u.last_name = term.value}
      [] term.kind = "NoSearch" -> rows

\* banner_id_filter with the Partial arm adding no filter.
banner_id_filter_partial_open(rows, term) ==
    CASE term.kind = "Partial" -> rows
      [] term.kind = "Exact" -> {u \in rows : u.banner_id = term.value}
      [] term.kind = "NoSearch" -> rows

\* The filter search_users adds for banner_id: both arms compare with eq.
banner_id_filter(rows, term) ==
    CASE term.kind = "Partial" -> {u \in rows : u.banner_id = term.value}
      [] term.kind = "Exact" -> {u \in rows : u.banner_id = term.value}
      [] term.kind = "NoSearch" -> rows

\* email_filter starting the query over from the table.
email_filter_restart(rows, term) ==
    CASE term.kind = "Partial" ->
             {u \in users : \E e \in u.email : like(e, format(term.value))}
      [] term.kind = "Exact" -> {u \in users : term.value \in u.email}
      [] term.kind = "Some" -> {u \in users : u.email # NoEmail}
      [] term.kind = "None" -> {u \in users : u.email = NoEmail}
      [] term.kind = "NoSearch" -> rows

\* The filter search_users adds for email; a comparison with NULL is not true.
email_filter(rows, term) ==
    CASE term.kind = "Partial" ->
             {u \in rows : \E e \in u.email : like(e, format(term.value))}
      [] term.kind = "Exact" -> {u \in rows : term.value \in u.email}
      [] term.kind = "Some" -> {u \in rows : u.email # NoEmail}
      [] term.kind = "None" -> {u \in rows : u.email = NoEmail}
      [] term.kind = "NoSearch" -> rows

\* The rows users_query loads: the four filters added in the order of the code.
found_users(user) ==
    email_filter(
        banner_id_filter(
            last_name_filter(
                first_name_filter(users, user.first_name),
                user.last_name),
            user.banner_id),
        user.email)

\* search_users: the one statement that loads the filtered query.
search_users(c) ==
    /\ pc[c] = "search_users"
    /\ Return(c, IF ~db_up THEN Err("search_users", "Database")
                 ELSE OkRows("search_users", found_users(req[c].user)))
    /\ UNCHANGED <<tables, other_tables, db_up>>

\* The requests of handle_user that change the users table.
is_create_user(request) == request.method = "POST" /\ request.path.kind = "None"

\* handle_user is called: the request and its parts are the handler's locals.
handle_user(c, request) ==
    /\ pc[c] = "idle"
    /\ is_create_user(request) =>
          next_user_id + Cardinality({d \in Conns :
              pc[d] = "handle_user" /\ is_create_user(req[d].request)})
          <= MaxUser
    /\ Goto(c, "handle_user", [op |-> "handle_user", request |-> request])
    /\ UNCHANGED <<tables, other_tables, db_up>>

\* get_user looking the row up by banner_id.
get_user_by_banner_id(id) == {u \in users : u.banner_id = id}

\* The rows get_user loads: SELECT ... WHERE id = ?
get_user(id) == {u \in users : u.id = id}

\* update_user: the changeset sets the fields that are given.
update_user(id, user) ==
    {IF u.id # id THEN u
     ELSE [id |-> u.id,
           first_name |-> IF user.first_name = {} THEN u.first_name
                          ELSE CHOOSE f \in user.first_name : TRUE,
           last_name |-> IF user.last_name = {} THEN u.last_name
                         ELSE CHOOSE l \in user.last_name : TRUE,
           banner_id |-> IF user.banner_id = {} THEN u.banner_id
                         ELSE CHOOSE b \in user.banner_id : TRUE,
           email |-> IF user.email = {} THEN u.email
                     ELSE CHOOSE e \in user.email : TRUE] : u \in users}

\* handle_user: the match on (method, path) and the arm it takes. create_user
\* reads its row back by LAST_INSERT_ID(), which is the connection's own, so
\* the insert and the read-back are taken as one step.
handle_user_match(c) ==
    /\ pc[c] = "handle_user"
    /\ LET request == req[c].request
           method == request.method
           path == request.path
       IN CASE method = "GET" /\ path.kind = "None" ->
                  LET parsed == for_query(request.query,
                                          [err |-> FALSE, user |-> no_search])
                  IN /\ IF parsed.err
                        THEN Return(c, Err("handle_user", "Url"))
                        ELSE Goto(c, "search_users",
                                  [op |-> "handle_user", request |-> request,
                                   user |-> parsed.user])
                     /\ UNCHANGED <<tables, other_tables, db_up>>
            [] method = "GET" /\ path.kind = "Ok" ->
                  /\ IF ~db_up
                     THEN Return(c, Err("get_user", "Database"))
                     ELSE IF get_user(path.id) # {}
                     THEN \E row \in get_user(path.id) :
                              Return(c, OkRows("get_user", {row}))
                     ELSE Return(c, Err("get_user", "NotFound"))
                  /\ UNCHANGED <<tables, other_tables, db_up>>
            [] method = "POST" /\ path.kind = "None" ->
                  IF ~db_up
                  THEN /\ Return(c, Err("create_user", "Database"))
                       /\ UNCHANGED <<tables, other_tables, db_up>>
                  ELSE LET new == request.body.new_user
                           row == [id |-> next_user_id,
                                   first_name |-> new.first_name,
                                   last_name |-> new.last_name,
                                   banner_id |-> new.banner_id,
                                   email |-> new.email]
                       IN /\ users' = users \cup {row}
                          /\ next_user_id' = next_user_id + 1
                          /\ Return(c, OkRows("create_user", {row}))
                          /\ UNCHANGED <<tables, question_categories,
                                         next_category_id, db_up>>
            [] method = "POST" /\ path.kind = "Ok" ->
                  IF ~db_up
                  THEN /\ Return(c, Err("update_user", "Database"))
                       /\ UNCHANGED <<tables, other_tables, db_up>>
                  ELSE /\ users' = update_user(path.id, request.body.update_user)
                       /\ Return(c, Ok("update_user"))
                       /\ UNCHANGED <<tables, next_user_id, question_categories,
                                      next_category_id, db_up>>
            [] method = "DELETE" /\ path.kind = "Ok" ->
                  IF ~db_up
                  THEN /\ Return(c, Err("delete_user", "Database"))
                       /\ UNCHANGED <<tables, other_tables, db_up>>
                  ELSE /\ users' = {u \in users : u.id # path.id}
                       /\ Return(c, Ok("delete_user"))
                       /\ UNCHANGED <<tables, next_user_id, question_categories,
                                      next_category_id, db_up>>
            [] OTHER ->
                  /\ Return(c, Err("handle_user", "Url"))
                  /\ UNCHANGED <<tables, other_tables, db_up>>

\* ------------------------------------------------- lookups and the joined view
\* The rows get_access loads: SELECT ... WHERE id = ?
found_access(id) == {a \in access : a.id = id}

get_access(c, id) ==
    /\ pc[c] = "idle"
    /\ IF ~db_up
       THEN Return(c, Err("get_access", "Database"))
       ELSE IF found_access(id) # {}
       THEN \E row \in found_access(id) : Return(c, OkRows("get_access", {row}))
       ELSE Return(c, Err("get_access", "NotFound"))
    /\ UNCHANGED <<tables, db_up>>

\* found_user_access filtering on user_id instead of permission_id.
found_user_access_by_user(permission_id) ==
    {g \in user_access : g.user_id = permission_id}

\* The rows get_user_access loads: SELECT ... WHERE permission_id = ?
found_user_access(permission_id) ==
    {g \in user_access : g.permission_id = permission_id}

get_user_access(c, permission_id) ==
    /\ pc[c] = "idle"
    /\ IF ~db_up
       THEN Return(c, Err("get_user_access", "Database"))
       ELSE IF found_user_access(permission_id) # {}
       THEN \E row \in found_user_access(permission_id) :
                Return(c, OkRows("get_user_access", {row}))
       ELSE Return(c, Err("get_user_access", "NotFound"))
    /\ UNCHANGED <<tables, db_up>>

\* The text a permission_level is stored as.
LevelDigits == <<"1", "2", "3", "4", "5", "6", "7", "8", "9">>
level_text(level) == <<LevelDigits[level]>>

\* user_access INNER JOIN access INNER JOIN users.
joined ==
    {[g |-> g, a |-> a, u |-> u] : g \in user_access, a \in access, u \in users}

user_access_query ==
    {r \in joined : r.a.id = r.g.access_id /\ r.u.id = r.g.user_id}

\* access_id_filter with the Partial arm adding no filter.
access_id_filter_partial_open(rows, term) ==
    CASE term.kind = "Partial" -> rows
      [] term.kind = "Exact" -> {r \in rows : r.g.access_id = term.value}
      [] term.kind = "NoSearch" -> rows

\* The filter search_user_access adds for access_id: both arms compare with eq.
access_id_filter(rows, term) ==
    CASE term.kind = "Partial" -> {r \in rows : r.g.access_id = term.value}
      [] term.kind = "Exact" -> {r \in rows : r.g.access_id = term.value}
      [] term.kind = "NoSearch" -> rows

\* The filter search_user_access adds for user_id: both arms compare with eq.
user_id_filter(rows, term) ==
    CASE term.kind = "Partial" -> {r \in rows : r.g.user_id = term.value}
      [] term.kind = "Exact" -> {r \in rows : r.g.user_id = term.value}
      [] term.kind = "NoSearch" -> rows

\* The filter search_user_access adds for permission_level.
permission_level_filter(rows, term) ==
    CASE term.kind = "Partial" ->
             {r \in rows : /\ r.g.permission_level # NoLevel
                           /\ like(level_text(r.g.permission_level),
                                   format(term.value))}
      [] term.kind = "Exact" ->
             {r \in rows : /\ r.g.permission_level # NoLevel
                           /\ level_text(r.g.permission_level) = term.value}
      [] term.kind = "Some" -> {r \in rows : r.g.permission_level # NoLevel}
      [] term.kind = "None" -> {r \in rows : r.g.permission_level = NoLevel}
      [] term.kind = "NoSearch" -> rows

\* The columns the query selects.
JoinedUserAccess(r) ==
    [permission_id |-> r.g.permission_id, user_id |-> r.u.id,
     access_id |-> r.a.id, first_name |-> r.u.first_name,
     last_name |-> r.u.last_name, banner_id |-> r.u.banner_id]

\* The rows search_user_access loads: the three filters in the order of the code.
found_access_entries(user_access_search) ==
    {JoinedUserAccess(r) :
        r \in permission_level_filter(
                  user_id_filter(
                      access_id_filter(user_access_query,
                                       user_access_search.access_id),
                      user_access_search.user_id),
                  user_access_search.permission_level)}

\* handle_user_access, the SearchAccess arm: search_user_access is called with
\* the criteria of the request.
handle_search_access(c, user_access_search) ==
    /\ pc[c] = "idle"
    /\ Goto(c, "search_user_access",
            [op |-> "search_user_access",
             user_access_search |-> user_access_search])
    /\ UNCHANGED <<tables, db_up>>

\* search_user_access: the one statement that loads the filtered query.
search_user_access(c) ==
    /\ pc[c] = "search_user_access"
    /\ Return(c, IF ~db_up THEN Err("search_user_access", "Database")
                 ELSE OkRows("search_user_access",
                             found_access_entries(req[c].user_access_search)))
    /\ UNCHANGED <<tables, db_up>>

\* ---------------------------------------------------- question categories
create_question_category(c, title) ==
    /\ pc[c] = "idle"
    /\ next_category_id <= MaxCategoryId
    /\ IF ~db_up
       THEN /\ Return(c, Err("create_question_category", "Database"))
            /\ UNCHANGED other_tables
       ELSE LET row == [id |-> next_category_id, title |-> title]
            IN /\ question_categories' = question_categories \cup {row}
               /\ next_category_id' = next_category_id + 1
               /\ Return(c, OkRows("create_question_category", {row}))
               /\ UNCHANGED <<users, next_user_id>>
    /\ UNCHANGED <<tables, db_up>>

delete_question_category(c, id) ==
    /\ pc[c] = "idle"
    /\ IF ~db_up
       THEN /\ Return(c, Err("delete_question_category", "Database"))
            /\ UNCHANGED other_tables
       ELSE /\ question_categories' = {q \in question_categories : q.id # id}
            /\ Return(c, Ok("delete_question_category"))
            /\ UNCHANGED <<users, next_user_id, next_category_id>>
    /\ UNCHANGED <<tables, db_up>>

get_question_categories(c) ==
    /\ pc[c] = "idle"
    /\ Return(c, IF ~db_up THEN Err("get_question_categories", "Database")
                 ELSE OkRows("get_question_categories", question_categories))
    /\ UNCHANGED <<tables, other_tables, db_up>>

\* ------------------------------------------------------------ datastore
db_fail ==
    /\ db_up' = ~db_up
    /\ UNCHANGED <<tables, pc, req, resp>>

NewUserAccesses ==
    [user_id : UserIds, access_id : AccessIds, permission_level : OptLevels]

Requester == {"c1"}
Admin == {"c2"}

Next ==
    \/ \E c \in Conns, u \in UserIds, a \in AccessIds : handle_check_access(c, u, a)
           /\ UNCHANGED other_tables
    \/ \E c \in Conns, new \in NewUserAccesses : create_user_access(c, new)
           /\ UNCHANGED other_tables
    \/ \E c \in Conns : create_user_access_insert(c) /\ UNCHANGED other_tables
    \/ \E c \in Conns : create_user_access_readback(c) /\ UNCHANGED other_tables
    \/ \E c \in Conns, id \in PermissionIds, level \in OptLevels :
           update_user_access(c, id, level) /\ UNCHANGED other_tables
    \/ \E c \in Conns, id \in PermissionIds : delete_user_access(c, id)
           /\ UNCHANGED other_tables

Spec == Init /\ [][Next]_vars

NextGate ==
    \/ \E c \in Admin, name \in AccessNames, level \in OptLevels :
           create_access(c, name, level) /\ UNCHANGED other_tables
    \/ \E c \in Admin, id \in AccessIds : delete_access(c, id)
           /\ UNCHANGED other_tables
    \/ \E c \in Admin, new \in NewUserAccesses : create_user_access(c, new)
           /\ UNCHANGED other_tables
    \/ \E c \in Admin : create_user_access_insert(c) /\ UNCHANGED other_tables
    \/ \E c \in Admin : create_user_access_readback(c) /\ UNCHANGED other_tables
    \/ \E c \in Admin, id \in PermissionIds : delete_user_access(c, id)
           /\ UNCHANGED other_tables
    \/ \E c \in Requester, request \in QuestionRequests, u \in RequestedUsers :
           \E resolved \in resolve_access(capability(request.kind)) :
               handle_question(c, request, u, resolved) /\ UNCHANGED other_tables
    \/ \E c \in Requester : handle_question_guarded(c) /\ UNCHANGED other_tables

SpecGate == Init /\ [][NextGate]_vars

\* The gate and the handlers over a datastore whose calls may fail.
NextFault ==
    \/ \E c \in Admin, name \in AccessNames, level \in OptLevels :
           create_access(c, name, level) /\ UNCHANGED other_tables
    \/ \E c \in Admin, new \in NewUserAccesses : create_user_access(c, new)
           /\ UNCHANGED other_tables
    \/ \E c \in Admin : create_user_access_insert(c) /\ UNCHANGED other_tables
    \/ \E c \in Admin : create_user_access_readback(c) /\ UNCHANGED other_tables
    \/ \E c \in Requester, request \in QuestionRequests, u \in RequestedUsers :
           \E resolved \in resolve_access(capability(request.kind)) :
               handle_question(c, request, u, resolved) /\ UNCHANGED other_tables
    \/ \E c \in Requester : handle_question_guarded(c) /\ UNCHANGED other_tables
    \/ db_fail /\ UNCHANGED other_tables

SpecFault == Init /\ [][NextFault]_vars

\* A single writer: a handler runs to completion before the next starts.
Exclusive(c) == \A d \in Conns \ {c} : pc[d] = "idle"

NextSeq ==
    \/ \E c \in Conns, u \in UserIds, a \in AccessIds :
           Exclusive(c) /\ handle_check_access(c, u, a) /\ UNCHANGED other_tables
    \/ \E c \in Conns, new \in NewUserAccesses :
           Exclusive(c) /\ create_user_access(c, new) /\ UNCHANGED other_tables
    \/ \E c \in Conns : Exclusive(c) /\ create_user_access_insert(c)
           /\ UNCHANGED other_tables
    \/ \E c \in Conns : Exclusive(c) /\ create_user_access_readback(c)
           /\ UNCHANGED other_tables
    \/ \E c \in Conns, id \in PermissionIds, level \in OptLevels :
           Exclusive(c) /\ update_user_access(c, id, level) /\ UNCHANGED other_tables
    \/ \E c \in Conns, id \in PermissionIds :
           Exclusive(c) /\ delete_user_access(c, id) /\ UNCHANGED other_tables

SpecSeq == Init /\ [][NextSeq]_vars

\* The requests handle_user is called with.
SearchUsersRequests(queries) ==
    {[method |-> "GET", path |-> NoPath, query |-> q, body |-> NoBody] :
        q \in queries}

GetUserRequests ==
    {[method |-> "GET", path |-> IdPath(id), query |-> <<>>, body |-> NoBody] :
        id \in UserIds}

CreateUserRequests(new_users) ==
    {[method |-> "POST", path |-> NoPath, query |-> <<>>,
      body |-> [new_user |-> n]] : n \in new_users}

UpdateUserRequests(partial_users) ==
    {[method |-> "POST", path |-> IdPath(id), query |-> <<>>,
      body |-> [update_user |-> u]] : id \in UserIds, u \in partial_users}

DeleteUserRequests ==
    {[method |-> "DELETE", path |-> IdPath(id), query |-> <<>>, body |-> NoBody] :
        id \in UserIds}

\* Requests no arm of the match takes.
OtherUserRequests ==
    {[method |-> "PUT", path |-> NoPath, query |-> <<>>, body |-> NoBody],
     [method |-> "DELETE", path |-> NoPath, query |-> <<>>, body |-> NoBody],
     [method |-> "GET", path |-> BadPath, query |-> <<>>, body |-> NoBody]}

\* Two users that differ in every column.
TwoNewUsers ==
    {[first_name |-> <<"a">>, last_name |-> <<"a">>, banner_id |-> 1,
      email |-> NoEmail],
     [first_name |-> <<"a", "1">>, last_name |-> <<"1">>, banner_id |-> 11,
      email |-> {<<"a">>}]}

\* The user searches: handle_user on one connection, every query set.
SearchSpecRequests ==
    SearchUsersRequests(Queries) \cup GetUserRequests
    \cup CreateUserRequests(TwoNewUsers) \cup DeleteUserRequests
    \cup OtherUserRequests

NextSearch ==
    \/ \E c \in Requester :
           pc[c] = "idle" /\ \E request \in SearchSpecRequests : handle_user(c, request)
    \/ \E c \in Requester : handle_user_match(c)
    \/ \E c \in Requester : search_users(c)

SpecSearch == Init /\ [][NextSearch]_vars

\* The criteria search_user_access is called with.
LevelTexts == {level_text(l) : l \in Levels} \cup {<<"_">>}
SearchUserAccesses ==
    [access_id : {NoSearch} \cup {Exact(i) : i \in AccessIds}
                            \cup {Partial(i) : i \in AccessIds},
     user_id : {NoSearch} \cup {Exact(i) : i \in UserIds}
                          \cup {Partial(i) : i \in UserIds},
     permission_level : {NoSearch, Some, None}
                        \cup {Exact(t) : t \in LevelTexts}
                        \cup {Partial(t) : t \in LevelTexts}]

\* The entries of a field whose text parses, and none or one of them.
valid_entries(field) ==
    {e \in QueryEntries :
        /\ e.field = field
        /\ ~ match_field([err |-> FALSE, user |-> no_search], field, e.query).err}

optional_entry(field) == {<<>>} \cup {<<e>> : e \in valid_entries(field)}

\* The query sets with at most one entry for each field, every text valid.
FilterQueries ==
    {a \o b \o c \o d : a \in optional_entry("first_name"),
                        b \in optional_entry("last_name"),
                        c \in optional_entry("banner_id"),
                        d \in optional_entry("email")}

FilterRequests ==
    SearchUsersRequests(FilterQueries) \cup CreateUserRequests(TwoNewUsers)

\* Three grants: two for one user, two for one access.
FilterGrants ==
    {[user_id |-> 1, access_id |-> 1, permission_level |-> NoLevel],
     [user_id |-> 1, access_id |-> MaxAccessId, permission_level |-> MaxLevel],
     [user_id |-> MaxUser, access_id |-> MaxAccessId, permission_level |-> NoLevel]}

\* The two searches over users, accesses and grants built on one connection.
NextFilter ==
    \/ \E c \in Requester :
           pc[c] = "idle" /\ \E request \in FilterRequests : handle_user(c, request)
    \/ \E c \in Requester : handle_user_match(c)
    \/ \E c \in Requester : search_users(c)
    \/ \E c \in Requester : create_access(c, "GetQuestions", NoLevel)
           /\ UNCHANGED other_tables
    \/ \E c \in Requester, new \in FilterGrants : create_user_access(c, new)
           /\ UNCHANGED other_tables
    \/ \E c \in Requester : create_user_access_insert(c) /\ UNCHANGED other_tables
    \/ \E c \in Requester : create_user_access_readback(c) /\ UNCHANGED other_tables
    \/ \E c \in Requester :
           pc[c] = "idle" /\ \E search \in SearchUserAccesses :
               handle_search_access(c, search) /\ UNCHANGED other_tables
    \/ \E c \in Requester : search_user_access(c) /\ UNCHANGED other_tables

SpecFilter == Init /\ [][NextFilter]_vars

\* The names, grants, users and ids the handlers are run with side by side.
HandlerNames == AccessNames
HandlerGrants ==
    [user_id : {1}, access_id : AccessIds, permission_level : {NoLevel}]
OneNewUser ==
    {[first_name |-> <<"a">>, last_name |-> <<"a">>, banner_id |-> 1,
      email |-> NoEmail]}
OnePartialUser ==
    {[first_name |-> {<<"a", "1">>}, last_name |-> {}, banner_id |-> {},
      email |-> {}]}
HandlerUserRequests ==
    GetUserRequests \cup CreateUserRequests(OneNewUser)
    \cup UpdateUserRequests(OnePartialUser) \cup DeleteUserRequests
\* The ids a question is looked up by: those of the rows and one beyond.
LookupIds == 1..(MaxQuestionId + 1)
HandlerQuestionRequests ==
    {[kind |-> "GetQuestion", id |-> i, title |-> ""] : i \in LookupIds}
    \cup {[kind |-> "CreateQuestion", id |-> 0, title |-> t] : t \in Titles}
    \cup {[kind |-> "DeleteQuestion", id |-> i, title |-> ""] : i \in QuestionIds}

\* Every resource handler on one connection.
NextHandlers ==
    \/ \E c \in Requester, name \in HandlerNames :
           create_access(c, name, NoLevel) /\ UNCHANGED other_tables
    \/ \E c \in Requester, id \in AccessIds :
           delete_access(c, id) /\ UNCHANGED other_tables
    \/ \E c \in Requester, id \in AccessIds :
           get_access(c, id) /\ UNCHANGED other_tables
    \/ \E c \in Requester, new \in HandlerGrants :
           create_user_access(c, new) /\ UNCHANGED other_tables
    \/ \E c \in Requester : create_user_access_insert(c) /\ UNCHANGED other_tables
    \/ \E c \in Requester : create_user_access_readback(c) /\ UNCHANGED other_tables
    \/ \E c \in Requester, id \in PermissionIds, level \in Levels :
           update_user_access(c, id, level) /\ UNCHANGED other_tables
    \/ \E c \in Requester, id \in PermissionIds :
           delete_user_access(c, id) /\ UNCHANGED other_tables
    \/ \E c \in Requester, id \in PermissionIds :
           get_user_access(c, id) /\ UNCHANGED other_tables
    \/ \E c \in Requester, request \in HandlerUserRequests : handle_user(c, request)
    \/ \E c \in Requester : handle_user_match(c)
    \/ \E c \in Requester, request \in HandlerQuestionRequests, u \in {NoUser, 1} :
           \E resolved \in resolve_access(capability(request.kind)) :
               handle_question(c, request, u, resolved) /\ UNCHANGED other_tables
    \/ \E c \in Requester : handle_question_guarded(c) /\ UNCHANGED other_tables
    \/ \E c \in Requester, title \in Titles : create_question_category(c, title)
    \/ \E c \in Requester, id \in 1..MaxCategoryId : delete_question_category(c, id)
    \/ \E c \in Requester : get_question_categories(c)

SpecHandlers == Init /\ [][NextHandlers]_vars

\* ================================================================ claims
\* The name each arm of handle_question hands to the gate, as written there.
asked_name(kind) ==
    IF kind \in {"GetQuestions", "GetQuestion"} THEN "GetQuestions"
    ELSE IF kind = "CreateQuestion" THEN "CreateQuestions"
    ELSE "DeleteQuestions"

\* A step of connection c from idle that leaves every other connection as it
\* was (every handler step is one).
step_of(c) ==
    /\ pc[c] = "idle"
    /\ \A d \in Conns \ {c} :
          pc'[d] = pc[d] /\ req'[d] = req[d] /\ resp'[d] = resp[d]

\* A grant of user u for Access row a whose level meets the level a requires.
holds_grant(u, a) ==
    \E g \in user_access :
        /\ g.user_id = u
        /\ g.access_id = a.id
        /\ (a.permission_level = NoLevel
            \/ (g.permission_level # NoLevel
                /\ g.permission_level >= a.permission_level))

\* C1: a gate call by a present user u for a name passes exactly when the
\* name resolves to an Access row and user_access holds a row for (u, that
\* row's id) whose level meets the level the Access requires.
C1_GateIffGrant ==
    [][\A c \in Conns : step_of(c) =>
         \A request \in QuestionRequests, u \in UserIds :
         \A resolved \in resolve_access(capability(request.kind)) :
            handle_question(c, request, u, resolved) =>
               ((pc'[c] = "hq_guarded" /\ resp'[c].kind # "Err")
                <=> \E a \in resolved :
                       /\ a \in access
                       /\ a.name = capability(request.kind)
                       /\ holds_grant(u, a))]_vars

\* C1 witness: a check passed for a capability that requires a level.
C1_Witness ==
    \E c \in Conns :
        /\ pc[c] = "hq_guarded"
        /\ \E a \in access :
              /\ a.name = capability(req[c].request.kind)
              /\ a.permission_level # NoLevel
              /\ holds_grant(req[c].requested_user, a)
        /\ \A a \in access : a.name = capability(req[c].request.kind)
                                => a.permission_level # NoLevel

\* C2: with no requesting user every request kind fails with Unauthenticated,
\* whatever the tables hold and whether or not the datastore answers.
C2_AbsentUserUnauthenticated ==
    [][\A c \in Conns : step_of(c) =>
         \A request \in QuestionRequests :
         \A resolved \in resolve_access(capability(request.kind)) :
            handle_question(c, request, NoUser, resolved) =>
               /\ resp'[c] = Err("handle_question", "Unauthenticated")
               /\ pc'[c] = "idle"]_vars

\* C2 witness: Unauthenticated was returned while every user holds a grant
\* for every registered access.
C2_Witness ==
    \E c \in Conns :
        /\ resp[c] = Err("handle_question", "Unauthenticated")
        /\ access # {}
        /\ \A u \in UserIds, a \in access : holds_grant(u, a)

\* C3: with a present user and no Access row of the asked name the gate
\* fails with UnknownCapability, whatever grants the user holds.
C3_UnknownCapabilityFirst ==
    [][\A c \in Conns : step_of(c) =>
         \A request \in QuestionRequests, u \in UserIds :
         \A resolved \in resolve_access(capability(request.kind)) :
            (/\ handle_question(c, request, u, resolved)
             /\ ~ \E a \in access : a.name = asked_name(request.kind))
            => /\ resp'[c] = Err("handle_question", "UnknownCapability")
               /\ pc'[c] = "idle"]_vars

\* C3 witness: UnknownCapability was returned while every user holds a grant.
C3_Witness ==
    \E c \in Conns :
        /\ resp[c] = Err("handle_question", "UnknownCapability")
        /\ \A u \in UserIds : \E g \in user_access : g.user_id = u

\* C4: a failed check (a denial or a datastore failure) returns that error
\* from handle_question with the questions table unchanged; the questions
\* table changes only in the guarded step of a request whose check passed.
C4_FailedCheckNoWrite ==
    [][/\ \A c \in Conns : step_of(c) =>
            \A request \in QuestionRequests, u \in RequestedUsers :
            \A resolved \in resolve_access(capability(request.kind)) :
               (/\ handle_question(c, request, u, resolved)
                /\ check_to_run(u, asked_name(request.kind), resolved) # "Ok")
               => /\ resp'[c] = Err("handle_question",
                                    check_to_run(u, asked_name(request.kind), resolved))
                  /\ pc'[c] = "idle"
                  /\ questions' = questions
       /\ \A c \in Conns :
            (pc[c] = "idle" /\ pc'[c] = "hq_guarded")
            => \E resolved \in resolve_access(asked_name(req'[c].request.kind)) :
                  check_to_run(req'[c].requested_user,
                               asked_name(req'[c].request.kind), resolved) = "Ok"
       /\ questions' # questions
            => \E c \in Conns :
                  /\ pc[c] = "hq_guarded"
                  /\ pc'[c] = "idle"
                  /\ req[c].request.kind \in {"CreateQuestion", "DeleteQuestion"}]_vars

\* C4 witness: a request was denied while there was a question to delete.
C4_Witness ==
    \E c \in Conns :
        /\ resp[c] = Err("handle_question", "Forbidden")
        /\ pc[c] = "idle"
        /\ questions # {}

\* The gate's answer to user u asking for the name of Access row a.
gate_answer(u, a) == check_to_run(u, a.name, {a})

\* C5, first part: a present user with no grant for the resolved Access is
\* answered Forbidden.
C5_NoGrantForbidden ==
    \A c \in Conns : step_of(c) =>
       \A request \in QuestionRequests, u \in UserIds :
       \A resolved \in resolve_access(capability(request.kind)) :
          (/\ resolved # {}
           /\ \A a \in resolved :
                 ~ \E g \in user_access : g.user_id = u /\ g.access_id = a.id
           /\ handle_question(c, request, u, resolved))
          => resp'[c] = Err("handle_question", "Forbidden")

\* C5, last part: once the grant's row is deleted the gate answers Forbidden.
C5_RevokedForbidden ==
    \A c \in Conns : step_of(c) =>
       \A id \in PermissionIds :
          delete_user_access(c, id) =>
             \A g \in user_access : g.permission_id = id =>
                \A a \in access : a.id = g.access_id =>
                   gate_answer(g.user_id, a)' = "Forbidden"

C6_DuplicateRejected ==
    [][\A c \in Conns : step_of(c) =>
         \A new \in NewUserAccesses :
            (/\ \E g \in user_access :
                   g.user_id = new.user_id /\ g.access_id = new.access_id
             /\ create_user_access(c, new))
            => /\ resp'[c] = Err("create_user_access", "Database")
               /\ pc'[c] = "idle"
               /\ user_access' = user_access
               /\ next_permission_id' = next_permission_id]_vars

\* C6 witness: a create was rejected while the only row ever inserted is
\* still there.
C6_Witness ==
    \E c \in Conns :
        /\ resp[c] = Err("create_user_access", "Database")
        /\ Cardinality(user_access) = 1
        /\ next_permission_id = 2

\* C7: under a single writer no two user_access rows share (user_id, access_id).
C7_UniquePairs ==
    \A g1, g2 \in user_access :
        (g1.user_id = g2.user_id /\ g1.access_id = g2.access_id) => g1 = g2

\* C7 witness: two grants exist and a further create was rejected.
C7_Witness ==
    \E c \in Conns :
        /\ Cardinality(user_access) = 2
        /\ resp[c] = Err("create_user_access", "Database")

C9_GuardedWriteUnconditional ==
    [][\A c \in Conns :
         (pc[c] = "hq_guarded" /\ handle_question_guarded(c)) =>
            /\ req[c].request.kind = "CreateQuestion" =>
                  /\ questions' = questions \cup
                        {[id |-> next_question_id, title |-> req[c].request.title]}
                  /\ resp'[c].kind = "Ok"
            /\ req[c].request.kind = "DeleteQuestion" =>
                  /\ questions' = {q \in questions : q.id # req[c].request.id}
                  /\ resp'[c].kind = "Ok"]_vars

\* C9 witness: the check passed, the grant was deleted, the write is pending.
C9_Witness ==
    /\ pc["c1"] = "hq_guarded"
    /\ req["c1"].request.kind \in {"CreateQuestion", "DeleteQuestion"}
    /\ resp["c2"] = Ok("delete_user_access")
    /\ user_access = {}

\* C10: delete_user_access returns Ok and removes exactly the rows of that
\* permission_id: none when no row matches, and none is left for a second call.
C10_DeleteIdempotent ==
    [][\A c \in Conns : step_of(c) =>
         \A id \in PermissionIds :
            delete_user_access(c, id) =>
               /\ resp'[c] = Ok("delete_user_access")
               /\ (~ \E g \in user_access : g.permission_id = id)
                     => user_access' = user_access
               /\ user_access' \subseteq user_access
               /\ \A g \in user_access : g.permission_id # id => g \in user_access'
               /\ \A g \in user_access' : g.permission_id # id]_vars

\* C10 witness: a delete returned Ok while every row ever inserted is there.
C10_Witness ==
    \E c \in Conns :
        /\ resp[c] = Ok("delete_user_access")
        /\ user_access # {}
        /\ Cardinality(user_access) = next_permission_id - 1

\* The four searchable fields of a user.
UserFields == {"first_name", "last_name", "banner_id", "email"}

\* The field names that occur in a query set.
query_fields(query) == {query[i].field : i \in 1..Len(query)}

\* C11: in the criteria handle_user builds from a query set, each of the four
\* fields is NoSearch exactly when its name does not occur in the query set,
\* whatever the other entries are.
C11_NoSearchIffAbsent ==
    \A c \in Conns :
        pc[c] = "search_users" =>
           \A f \in UserFields :
              req[c].user[f].kind = "NoSearch"
                 <=> f \notin query_fields(req[c].request.query)

\* C11 witness: criteria built from two entries, the other two fields NoSearch.
C11_Witness ==
    \E c \in Conns :
        /\ pc[c] = "search_users"
        /\ Len(req[c].request.query) = MaxQuery
        /\ req[c].request.query[1].field = "email"
        /\ req[c].request.query[MaxQuery].field = "banner_id"
        /\ req[c].user.email.kind = "None"
        /\ req[c].user.banner_id.kind = "Exact"
        /\ req[c].user.first_name.kind = "NoSearch"
        /\ req[c].user.last_name.kind = "NoSearch"

\* The predicate a term puts on a text column.
text_predicate(column, term) ==
    CASE term.kind = "Exact" -> column = term.value
      [] term.kind = "Partial" -> like(column, <<"%">> \o term.value \o <<"%">>)
      [] OTHER -> TRUE

\* The predicate a term puts on a nullable text column.
nullable_predicate(column, term) ==
    CASE term.kind = "Some" -> column # {}
      [] term.kind = "None" -> column = {}
      [] term.kind = "NoSearch" -> TRUE
      [] OTHER -> \E text \in column : text_predicate(text, term)

\* The predicate a term puts on a numeric column.
numeric_predicate(column, term) ==
    term.kind # "NoSearch" => column = term.value

\* A user satisfies the predicate of every field of the criteria.
satisfies_user(u, user) ==
    /\ text_predicate(u.first_name, user.first_name)
    /\ text_predicate(u.last_name, user.last_name)
    /\ numeric_predicate(u.banner_id, user.banner_id)
    /\ nullable_predicate(u.email, user.email)

\* A grant satisfies the predicate of every field of the criteria.
satisfies_grant(g, search) ==
    /\ numeric_predicate(g.access_id, search.access_id)
    /\ numeric_predicate(g.user_id, search.user_id)
    /\ nullable_predicate(IF g.permission_level = NoLevel THEN {}
                          ELSE {level_text(g.permission_level)},
                          search.permission_level)

\* The joined view of the grants: one record for each grant whose user and
\* access exist.
joined_view(grants) ==
    {[permission_id |-> g.permission_id, user_id |-> u.id, access_id |-> a.id,
      first_name |-> u.first_name, last_name |-> u.last_name,
      banner_id |-> u.banner_id] :
        <<g, a, u>> \in {t \in grants \X access \X users :
                            t[2].id = t[1].access_id /\ t[3].id = t[1].user_id}}

\* The filters of search_users applied in the opposite order.
found_users_reversed(user) ==
    first_name_filter(
        last_name_filter(
            banner_id_filter(email_filter(users, user.email), user.banner_id),
            user.last_name),
        user.first_name)

\* The filters of search_user_access applied in the opposite order.
found_access_entries_reversed(search) ==
    {JoinedUserAccess(r) :
        r \in access_id_filter(
                  user_id_filter(
                      permission_level_filter(user_access_query,
                                              search.permission_level),
                      search.user_id),
                  search.access_id)}

\* C12: search_users returns exactly the users that satisfy the predicate of
\* every field that is not NoSearch, and search_user_access exactly the joined
\* records of the grants that do; applying the filters in the opposite order
\* gives the same rows; with every field NoSearch the result is the whole
\* table, respectively the whole joined view.
C12_ConjunctionOfFilters ==
    [][\A c \in Conns :
         /\ (pc[c] = "search_users" /\ pc'[c] = "idle") =>
               /\ resp'[c] = OkRows("search_users",
                                    {u \in users : satisfies_user(u, req[c].user)})
               /\ resp'[c].rows = found_users_reversed(req[c].user)
               /\ (\A f \in UserFields : req[c].user[f].kind = "NoSearch")
                     => resp'[c].rows = users
         /\ (pc[c] = "search_user_access" /\ pc'[c] = "idle") =>
               LET search == req[c].user_access_search
               IN /\ resp'[c] =
                        OkRows("search_user_access",
                               joined_view({g \in user_access :
                                               satisfies_grant(g, search)}))
                  /\ resp'[c].rows = found_access_entries_reversed(search)
                  /\ (/\ search.access_id.kind = "NoSearch"
                      /\ search.user_id.kind = "NoSearch"
                      /\ search.permission_level.kind = "NoSearch")
                        => resp'[c].rows = joined_view(user_access)]_vars

\* C12 witness: a user search returned one of two users while a grant search
\* can return a grant.
C12_Witness ==
    \E c \in Conns :
        /\ resp[c].op = "search_users"
        /\ resp[c].kind = "Ok"
        /\ Cardinality(users) = MaxUser
        /\ Cardinality(resp[c].rows) = 1
        /\ joined_view(user_access) # {}

\* C13: a Partial(v) term on banner_id, access_id or user_id gives no error
\* and the rows of Exact(v): those the other fields' filters leave whose
\* column equals v.
C13_PartialIsExactOnNumbers ==
    [][\A c \in Conns :
         /\ (/\ pc[c] = "search_users" /\ pc'[c] = "idle"
             /\ req[c].user.banner_id.kind = "Partial") =>
               LET user == req[c].user
                   v == user.banner_id.value
               IN /\ resp'[c].kind = "Ok"
                  /\ resp'[c].rows =
                        found_users([user EXCEPT !.banner_id = Exact(v)])
                  /\ resp'[c].rows =
                        {u \in found_users([user EXCEPT !.banner_id = NoSearch]) :
                            u.banner_id = v}
         /\ (/\ pc[c] = "search_user_access" /\ pc'[c] = "idle"
             /\ req[c].user_access_search.access_id.kind = "Partial") =>
               LET search == req[c].user_access_search
                   v == search.access_id.value
               IN /\ resp'[c].kind = "Ok"
                  /\ resp'[c].rows =
                        found_access_entries([search EXCEPT !.access_id = Exact(v)])
                  /\ resp'[c].rows =
                        {r \in found_access_entries(
                                   [search EXCEPT !.access_id = NoSearch]) :
                            r.access_id = v}
         /\ (/\ pc[c] = "search_user_access" /\ pc'[c] = "idle"
             /\ req[c].user_access_search.user_id.kind = "Partial") =>
               LET search == req[c].user_access_search
                   v == search.user_id.value
               IN /\ resp'[c].kind = "Ok"
                  /\ resp'[c].rows =
                        found_access_entries([search EXCEPT !.user_id = Exact(v)])
                  /\ resp'[c].rows =
                        {r \in found_access_entries(
                                   [search EXCEPT !.user_id = NoSearch]) :
                            r.user_id = v}]_vars

\* C13 witness: a Partial search on banner_id is about to run over two users
\* whose banner ids both hold its digits and only one of which equals it.
C13_Witness ==
    \E c \in Conns :
        /\ pc[c] = "search_users"
        /\ req[c].user.banner_id.kind = "Partial"
        /\ \E u \in users : u.banner_id = req[c].user.banner_id.value
        /\ \E u \in users : u.banner_id # req[c].user.banner_id.value

\* C14: a user search whose query set holds a name that is none of the four
\* fields fails with Url, wherever the name stands and whatever the other
\* entries are; search_users is not called and no table changes.
C14_UnknownFieldUrl ==
    [][\A c \in Conns :
         /\ (/\ pc[c] = "handle_user"
             /\ req[c].request.method = "GET"
             /\ req[c].request.path.kind = "None"
             /\ query_fields(req[c].request.query) \ UserFields # {}) =>
               /\ resp'[c] = Err("handle_user", "Url")
               /\ pc'[c] = "idle"
               /\ UNCHANGED <<tables, other_tables>>
         /\ pc'[c] = "search_users" =>
               query_fields(req'[c].request.query) \subseteq UserFields]_vars

\* C14 witness: a search is being handled whose query set holds a valid entry
\* for a field and then an unknown name, over a table with a user.
C14_Witness ==
    \E c \in Conns :
        /\ pc[c] = "handle_user"
        /\ req[c].request.method = "GET"
        /\ req[c].request.path.kind = "None"
        /\ Len(req[c].request.query) = MaxQuery
        /\ req[c].request.query[1].field = "first_name"
        /\ req[c].request.query[1].query.prefix = "exact:"
        /\ req[c].request.query[1].query.payload # <<>>
        /\ req[c].request.query[MaxQuery].field = "nickname"
        /\ users # {}

\* What a lookup by primary key answers, given the stored rows with that id:
\* that one row when there is one, NotFound when there is none.
lookup_answer(response, op, stored) ==
    IF stored # {}
    THEN /\ response.kind = "Ok"
         /\ response.op = op
         /\ Cardinality(response.rows) = 1
         /\ response.rows \subseteq stored
    ELSE response = Err(op, "NotFound")

\* C15: with the datastore answering, a lookup by primary key (get_access,
\* get_user_access, get_user, read_single) returns the stored row with that id
\* when there is one and NotFound when there is none, never a row with another
\* id, and leaves every table as it was.
C15_LookupByPrimaryKey ==
    [][/\ \A id \in AccessIds :
              get_access("c1", id) =>
                  /\ lookup_answer(resp'["c1"], "get_access",
                                   {a \in access : a.id = id})
                  /\ tables' = tables /\ other_tables' = other_tables
       /\ \A id \in PermissionIds :
              get_user_access("c1", id) =>
                  /\ lookup_answer(resp'["c1"], "get_user_access",
                                   {g \in user_access : g.permission_id = id})
                  /\ tables' = tables /\ other_tables' = other_tables
       /\ (/\ pc["c1"] = "handle_user"
           /\ req["c1"].request.method = "GET"
           /\ req["c1"].request.path.kind = "Ok"
           /\ handle_user_match("c1")) =>
              /\ lookup_answer(resp'["c1"], "get_user",
                               {u \in users : u.id = req["c1"].request.path.id})
              /\ tables' = tables /\ other_tables' = other_tables
       /\ (/\ pc["c1"] = "hq_guarded"
           /\ req["c1"].request.kind = "GetQuestion"
           /\ handle_question_guarded("c1")) =>
              /\ lookup_answer(resp'["c1"], "handle_question",
                               {q \in questions : q.id = req["c1"].request.id})
              /\ tables' = tables /\ other_tables' = other_tables
      ]_vars

\* A grant was looked up and returned while a grant with another id is stored.
C15_Witness ==
    /\ resp["c1"].op = "get_user_access"
    /\ resp["c1"].kind = "Ok"
    /\ \E g \in resp["c1"].rows :
           \E h \in user_access : h.permission_id # g.permission_id

\* C16: every mutating operation of the resource handlers runs only after the
\* permission gate has succeeded for the request: a step that changes a table
\* is the guarded step of a connection whose check_to_run returned Ok. The
\* handlers of accesses, grants, users and question categories call no gate,
\* so the property fails on their first write.
C16_MutationOnlyAfterGate ==
    [][(tables' # tables \/ other_tables' # other_tables) =>
           \E c \in Conns :
               /\ pc[c] = "hq_guarded"
               /\ pc'[c] = "idle"
      ]_vars

\* Every grant of user u is for an Access named "GetQuestions".
holds_only_get(u) ==
    \A g \in user_access, a \in access :
        (g.user_id = u /\ a.id = g.access_id) => a.name = "GetQuestions"

C18_CreateReturnsItsRow ==
    [][/\ \A g \in user_access : g.permission_id < next_permission_id
       /\ next_permission_id' >= next_permission_id
       /\ \A c \in Conns :
            (pc[c] = "cua_insert" /\ create_user_access_insert(c)) =>
               \E g \in user_access' :
                  /\ user_access' = user_access \cup {g}
                  /\ g \notin user_access
                  /\ g.permission_id >= next_permission_id
                  /\ g.user_id = req[c].new.user_id
                  /\ g.access_id = req[c].new.access_id
                  /\ req'[c].last_insert_id = g.permission_id
       /\ \A c \in Conns :
            (/\ pc[c] = "cua_readback"
             /\ create_user_access_readback(c)
             /\ resp'[c].kind = "Ok")
            => /\ Cardinality(resp'[c].rows) = 1
               /\ resp'[c].rows \subseteq user_access
               /\ \A g \in resp'[c].rows :
                     /\ g.permission_id = req[c].last_insert_id
                     /\ g.user_id = req[c].new.user_id
                     /\ g.access_id = req[c].new.access_id
               /\ user_access' = user_access
      ]_vars

\* A call has inserted and not yet read back, and another connection has
\* inserted a grant for a different pair since.
C18_Witness ==
    \E c \in Conns :
        /\ pc[c] = "cua_readback"
        /\ \E g, h \in user_access :
              /\ g.permission_id = req[c].last_insert_id
              /\ h.permission_id > g.permission_id
              /\ <<h.user_id, h.access_id>> # <<g.user_id, g.access_id>>

============================================================================
